---- MODULE Spec2Model ----
\* Simulation engine of src/game.js (the second, complete copy of the game,
\* lines 373-908): setup / spawnThrone / update / checkCollisions / jump /
\* endGame, with the browser's one-shot timers as a bag of pending timers.
\*
\* Vertical quantities (bird.y, bird.velocity, throne y and height, the
\* field height and its bands) are integers in units of 1/Scale pixel
\* (Scale = 40): GRAVITY = 0.5 and the gap offsets 400 - 520 * k/64 are
\* binary fractions, so the program's double arithmetic on them is exact.
\*
\* Horizontal quantities (throne x and width, bird x and width, the speed)
\* are IEEE-754 doubles, modelled bit for bit: SPEED_INCREASE_RATE = 0.1 is
\* not a binary fraction, so score * 0.1, 12 + score * 0.1 and every
\* throne.x -= speed are rounded to 53 significant bits, and the strict
\* tests on x see the rounded values.  A double d is the record [n, e] with
\*     d = n / 10 + e * 2^-56 / 10
\* n the nominal value in tenths of a pixel and e the accumulated rounding
\* error; every double that occurs is a multiple of 2^-56, and [n, e] with
\* |e| small is unique for it.  The two integers hold every double the
\* program computes while the score is at most MaxScore (speeds and
\* positions below 2^22 px); the running tick is guarded by that bound.
\* Math.random() is the rational k / RandDen.
EXTENDS Integers, Naturals, Sequences, FiniteSets, Bags, TLC

\* ---------------------------------------------------------------------
\* Double arithmetic (round to nearest, ties to even) on records [n, e]
\* ---------------------------------------------------------------------
\* the double of an integer number p of pixels
Px(p) == [n |-> 10 * p, e |-> 0]

Pow2(k) == 2 ^ k

\* 2^k modulo 10: 1 for k = 0, then 2, 4, 8, 6 in turn
Pow2Mod10(k) == IF k = 0 THEN 1 ELSE <<6, 2, 4, 8>>[(k % 4) + 1]

FlNeg(a) == [n |-> 0 - a.n, e |-> 0 - a.e]

\* a < b on doubles
FlLT(a, b) == a.n < b.n \/ (a.n = b.n /\ a.e < b.e)

\* floor(log2(q)) for an integer q >= 1: the integers of the model are below
\* 2^31, so the exponent is one of 0 .. 30; found by bisection
Log2Floor(q) ==
    IF q >= 32768
    THEN IF q >= 8388608
         THEN IF q >= 134217728
              THEN IF q >= 536870912
                   THEN IF q >= 1073741824
                        THEN 30
                        ELSE 29
                   ELSE IF q >= 268435456
                        THEN 28
                        ELSE 27
              ELSE IF q >= 33554432
                   THEN IF q >= 67108864
                        THEN 26
                        ELSE 25
                   ELSE IF q >= 16777216
                        THEN 24
                        ELSE 23
         ELSE IF q >= 524288
              THEN IF q >= 2097152
                   THEN IF q >= 4194304
                        THEN 22
                        ELSE 21
                   ELSE IF q >= 1048576
                        THEN 20
                        ELSE 19
              ELSE IF q >= 131072
                   THEN IF q >= 262144
                        THEN 18
                        ELSE 17
                   ELSE IF q >= 65536
                        THEN 16
                        ELSE 15
    ELSE IF q >= 128
         THEN IF q >= 2048
              THEN IF q >= 8192
                   THEN IF q >= 16384
                        THEN 14
                        ELSE 13
                   ELSE IF q >= 4096
                        THEN 12
                        ELSE 11
              ELSE IF q >= 512
                   THEN IF q >= 1024
                        THEN 10
                        ELSE 9
                   ELSE IF q >= 256
                        THEN 8
                        ELSE 7
         ELSE IF q >= 8
              THEN IF q >= 32
                   THEN IF q >= 64
                        THEN 6
                        ELSE 5
                   ELSE IF q >= 16
                        THEN 4
                        ELSE 3
              ELSE IF q >= 2
                   THEN IF q >= 4
                        THEN 2
                        ELSE 1
                   ELSE 0

\* The exponent E with 2^E <= a < 2^(E+1), for a >= 2^-4.  In tenths
\* 2^E is 10 * 2^E for E >= 0, and 5, 2.5, 1.25, 0.625 for E = -1 .. -4;
\* a value whose nominal part is on a power of two lies below it when its
\* error is negative.
Binade(a) ==
    LET m == IF a.e < 0 THEN a.n - 1 ELSE a.n
    IN IF m >= 10 THEN Log2Floor(m \div 10)
       ELSE IF m >= 5 THEN 0 - 1
       ELSE IF a.n >= 3 THEN 0 - 2
       ELSE IF a.n >= 2 THEN 0 - 3
       ELSE 0 - 4

\* Rounding of a non-negative value a in the binade [2^E, 2^(E+1)), where
\* doubles are G = 2^(E+4) units of 2^-56 apart: X is a in those units,
\* taken modulo 2G, and R its remainder modulo G.
UnitsMod2G(a, E, G) ==
    ((2 * G * ((a.n * Pow2Mod10(51 - E)) % 10) + a.e) % (20 * G)) \div 10

\* the step to the nearest multiple of G; a remainder of exactly G/2 goes
\* to the even multiple
ToNearestEven(X, G, R) ==
    IF 2 * R < G THEN 0 - R
    ELSE IF 2 * R > G THEN G - R
    ELSE IF X >= G THEN G - R
    ELSE 0 - R

RoundUnits(a, G, X) ==
    [n |-> a.n, e |-> a.e + 10 * ToNearestEven(X, G, X % G)]

RoundInBinade(a, E, G) == RoundUnits(a, G, UnitsMod2G(a, E, G))

RoundAbs(a, E) == RoundInBinade(a, E, Pow2(E + 4))

\* The double nearest to the exact value v (a multiple of 2^-56).  A
\* multiple of 1/2 is a double, and so is every such value below 2^-4
\* (nominal part 0).
Round(v) ==
    IF v.e = 0 /\ v.n % 5 = 0 THEN v
    ELSE IF v.n = 0 THEN v
    ELSE IF v.n < 0 THEN FlNeg(RoundAbs(FlNeg(v), Binade(FlNeg(v))))
    ELSE RoundAbs(v, Binade(v))

\* a + b, a - b on doubles; s * a for an integer s
FlAdd(a, b) == Round([n |-> a.n + b.n, e |-> a.e + b.e])
FlSub(a, b) == Round([n |-> a.n - b.n, e |-> a.e - b.e])
FlMulInt(s, a) == Round([n |-> s * a.n, e |-> s * a.e])

\* ---------------------------------------------------------------------
\* Program constants (src/game.js:383-392, 404-408)
\* ---------------------------------------------------------------------
Scale == 8 * 5

CANVAS_WIDTH == Px(1920)
CANVAS_HEIGHT == 1080 * Scale
GRAVITY == Scale \div 2
JUMP_STRENGTH == (0 - 8) * Scale
INITIAL_THRONE_SPEED == Px(12)
INITIAL_SPAWN_INTERVAL == 3000
THRONE_GAP == 800 * Scale
THRONE_WIDTH == Px(360)
\* the double nearest to 0.1, which is 0.1 + 2^-55 / 5
SPEED_INCREASE_RATE == [n |-> 1, e |-> 4]

BIRD_X == Px(400)
BIRD_WIDTH == Px(360)
BIRD_HEIGHT == 203 * Scale
BIRD_START_Y == CANVAS_HEIGHT \div 2

\* locals of spawnThrone (lines 543-544) and update (lines 607-608)
minGapY == 400 * Scale
maxGapY == CANVAS_HEIGHT - THRONE_GAP - 400 * Scale
groundY == CANVAS_HEIGHT - 120 * Scale
ceilingY == 120 * Scale
GRACE_DELAY == 2000

\* ---------------------------------------------------------------------
\* Bounds of the exploration (environment: player, frame clock, timers)
\* ---------------------------------------------------------------------
MaxSessions == 2        \* number of setup() calls explored
MaxFrames == 240        \* update() calls executed in one session
MaxScore == 40000000    \* update() runs while running only up to this score
MaxIdleTicks == 2       \* update() calls made while not running, per session
MaxPairs == 2           \* pairs spawned in one session
SpawnEvery == 81        \* while running, a timer expires only on frames that are multiples of it
MaxSpawnSlots == 2      \* and in Spec only on the first MaxSpawnSlots of those frames
RandDen == 64           \* Math.random() = k / RandDen
RandomKs == {0, 31}     \* the draws explored: gapY = 400 px and 148.125 px
MaxBurst == 5           \* SpecBurst: pairs spawned between two frames
BurstFrames == 4100     \* SpecBurst: update() calls executed in the session
BurstSizes == {4, 5}    \* SpecBurst: frames resume after this many pairs (the
                        \* first burst) or after the largest of them (later bursts)
BurstKs == {31}         \* SpecBurst: the draw explored
JumpVelocities == {0, (15 * Scale) \div 2}
                        \* the player presses while running only at these
                        \* velocities (0 and 7.5 px per frame): pressing at
                        \* 7.5 keeps the bird between y = 540 and y = 600,
                        \* pressing at 0 climbs 60 px per press

VARIABLES
    running,            \* gameState.running
    gameOver,           \* gameState.gameOver
    score,              \* gameState.score
    currentThroneSpeed, \* gameState.currentThroneSpeed
    bird,               \* [y, velocity]; x, width, height are constant
    thrones,            \* the thrones array, in array order
    timers,             \* bag of pending setTimeout(spawnThrone, delay)
    session,            \* history: number of setup() calls so far
    frame,              \* history: update() bodies executed in this session
    idleTicks,          \* history: update() early returns since last setup
    endSoundPlays,      \* history: playEndSound() calls since last setup
    pairScore           \* history: per pair spawned in this session, the
                        \* number of score increments it caused

vars == <<running, gameOver, score, currentThroneSpeed, bird, thrones,
          timers, session, frame, idleTicks, endSoundPlays, pairScore>>

engine == <<running, gameOver, score, currentThroneSpeed, bird, thrones>>

\* ---------------------------------------------------------------------
\* Initial state: module-level declarations, lines 395-414
\* ---------------------------------------------------------------------
Init ==
    /\ running = FALSE
    /\ gameOver = FALSE
    /\ score = 0
    /\ currentThroneSpeed = INITIAL_THRONE_SPEED
    /\ bird = [y |-> BIRD_START_Y, velocity |-> 0]
    /\ thrones = <<>>
    /\ timers = EmptyBag
    /\ session = 0
    /\ frame = 0
    /\ idleTicks = 0
    /\ endSoundPlays = 0
    /\ pairScore = <<>>

\* ---------------------------------------------------------------------
\* Pure helpers
\* ---------------------------------------------------------------------
getSpawnIntervalInclusive(sc) ==
    IF sc <= 10 THEN INITIAL_SPAWN_INTERVAL
    ELSE IF sc <= 20 THEN 2500
    ELSE IF sc <= 50 THEN 2000
    ELSE IF sc <= 100 THEN 1500
    ELSE 1000

\* getSpawnInterval(), lines 524-537
getSpawnInterval(sc) ==
    IF sc < 10 THEN INITIAL_SPAWN_INTERVAL
    ELSE IF sc < 20 THEN 2500
    ELSE IF sc < 50 THEN 2000
    ELSE IF sc < 100 THEN 1500
    ELSE 1000

\* line 545: Math.random() * (maxGapY - minGapY) + minGapY, random = k/RandDen
GapY(k) == (k * (maxGapY - minGapY)) \div RandDen + minGapY

TopThroneNarrow(gapY, id) ==
    [x |-> CANVAS_WIDTH, y |-> 0, width |-> Px(180),
     height |-> gapY, passed |-> FALSE, pair |-> id]

\* lines 548-554
TopThrone(gapY, id) ==
    [x |-> CANVAS_WIDTH, y |-> 0, width |-> THRONE_WIDTH,
     height |-> gapY, passed |-> FALSE, pair |-> id]

BottomThroneNoGap(gapY, id) ==
    [x |-> CANVAS_WIDTH, y |-> gapY, width |-> THRONE_WIDTH,
     height |-> CANVAS_HEIGHT - gapY, passed |-> FALSE, pair |-> id]

\* lines 557-563
BottomThrone(gapY, id) ==
    [x |-> CANVAS_WIDTH, y |-> gapY + THRONE_GAP, width |-> THRONE_WIDTH,
     height |-> CANVAS_HEIGHT - (gapY + THRONE_GAP), passed |-> FALSE,
     pair |-> id]

OverlapsHorizontally(b, throne) ==
    /\ FlLT(BIRD_X, FlAdd(throne.x, throne.width))
    /\ FlLT(throne.x, FlAdd(BIRD_X, BIRD_WIDTH))

\* the overlap test of checkCollisions, lines 620-625
Overlaps(b, throne) ==
    /\ FlLT(BIRD_X, FlAdd(throne.x, throne.width))
    /\ FlLT(throne.x, FlAdd(BIRD_X, BIRD_WIDTH))
    /\ b.y < throne.y + throne.height
    /\ b.y + BIRD_HEIGHT > throne.y

CollidesTopOnly(b, ths) ==
    \E i \in 1..Len(ths) : i % 2 = 1 /\ Overlaps(b, ths[i])

\* checkCollisions(): does it call endGame(), lines 617-630
Collides(b, ths) == \E i \in 1..Len(ths) : Overlaps(b, ths[i])

OutOfBandCeilingOnly(b) == b.y <= ceilingY

\* the ground / ceiling test of update, line 609
OutOfBand(b) == b.y + BIRD_HEIGHT >= groundY \/ b.y <= ceilingY

\* variants of endGame used to test the properties below
endGameKeepsRunning(st) ==
    IF st.gameOver THEN st
    ELSE [running |-> st.running, gameOver |-> TRUE, plays |-> st.plays + 1]

endGameNoGuard(st) ==
    [running |-> FALSE, gameOver |-> TRUE, plays |-> st.plays + 1]

endGameToIdle(st) ==
    IF st.gameOver THEN st
    ELSE [running |-> FALSE, gameOver |-> FALSE, plays |-> st.plays]

\* endGame() on the lifecycle part of the state, lines 839-857
endGame(st) ==
    IF st.gameOver THEN st
    ELSE [running |-> FALSE, gameOver |-> TRUE, plays |-> st.plays + 1]

SpeedForCached(sc) == INITIAL_THRONE_SPEED

\* line 581: the speed derived from the score
SpeedFor(sc) ==
    FlAdd(INITIAL_THRONE_SPEED, FlMulInt(sc, SPEED_INCREASE_RATE))

ScoresPairAlways(i) == TRUE

\* line 592: only the throne at an even JavaScript index counts for the score
ScoresPair(i) == i % 2 = 0

IntegrateExplicit(b) ==
    [y |-> b.y + b.velocity, velocity |-> b.velocity + GRAVITY]

\* lines 577-578: gravity, then the position from the updated velocity
Integrate(b) ==
    LET v == b.velocity + GRAVITY
    IN [y |-> b.y + v, velocity |-> v]

SpliceNothing(s, i) == s

\* splice(i, 1) on a 1-based sequence
Splice(s, i) == SubSeq(s, 1, i - 1) \o SubSeq(s, i + 1, Len(s))

\* variant of the loop that tests for scoring before it moves the throne
RECURSIVE UpdateLoopScoreFirst(_, _, _)
UpdateLoopScoreFirst(i, speed, acc) ==
    IF i < 1 \/ acc.thrones = <<>> THEN acc
    ELSE
        LET old == acc.thrones[i]
            passes == ~old.passed /\ FlLT(FlAdd(old.x, old.width), BIRD_X)
            counts == passes /\ ScoresPair(i - 1)
            throne == [old EXCEPT !.x = FlSub(@, speed), !.passed = @ \/ passes]
            kept == [acc.thrones EXCEPT ![i] = throne]
            after == IF FlLT(FlAdd(throne.x, throne.width), Px(0))
                        THEN Splice(kept, i) ELSE kept
        IN UpdateLoopScoreFirst(i - 1, speed,
              [thrones |-> after,
               score |-> IF counts THEN acc.score + 1 ELSE acc.score,
               pairScore |-> IF counts
                   THEN [acc.pairScore EXCEPT ![throne.pair] = @ + 1]
                   ELSE acc.pairScore])

\* variant of the loop that walks the array forwards, so that the element
\* that follows a removed one is skipped
RECURSIVE ForwardLoop(_, _, _)
ForwardLoop(i, speed, acc) ==
    IF i > Len(acc.thrones) THEN acc
    ELSE
        LET moved == [acc.thrones[i] EXCEPT !.x = FlSub(@, speed)]
            passes == ~moved.passed /\ FlLT(FlAdd(moved.x, moved.width), BIRD_X)
            counts == passes /\ ScoresPair(i - 1)
            throne == [moved EXCEPT !.passed = @ \/ passes]
            kept == [acc.thrones EXCEPT ![i] = throne]
            after == IF FlLT(FlAdd(throne.x, throne.width), Px(0))
                        THEN Splice(kept, i) ELSE kept
        IN ForwardLoop(i + 1, speed,
              [thrones |-> after,
               score |-> IF counts THEN acc.score + 1 ELSE acc.score,
               pairScore |-> IF counts
                   THEN [acc.pairScore EXCEPT ![throne.pair] = @ + 1]
                   ELSE acc.pairScore])

UpdateLoopForward(i, speed, acc) == ForwardLoop(1, speed, acc)

\* The for loop of update, lines 584-601, from 1-based position i down to 1
\* (an empty array has no position left to visit).
\* acc = [thrones, score, pairScore]; the JavaScript index is i - 1.
RECURSIVE UpdateLoop(_, _, _)
UpdateLoop(i, speed, acc) ==
    IF i < 1 \/ acc.thrones = <<>> THEN acc
    ELSE
        LET moved == [acc.thrones[i] EXCEPT !.x = FlSub(@, speed)]
            passes == ~moved.passed /\ FlLT(FlAdd(moved.x, moved.width), BIRD_X)
            counts == passes /\ ScoresPair(i - 1)
            throne == [moved EXCEPT !.passed = @ \/ passes]
            kept == [acc.thrones EXCEPT ![i] = throne]
            after == IF FlLT(FlAdd(throne.x, throne.width), Px(0))
                        THEN Splice(kept, i) ELSE kept
        IN UpdateLoop(i - 1, speed,
              [thrones |-> after,
               score |-> IF counts THEN acc.score + 1 ELSE acc.score,
               pairScore |-> IF counts
                   THEN [acc.pairScore EXCEPT ![throne.pair] = @ + 1]
                   ELSE acc.pairScore])

\* ---------------------------------------------------------------------
\* Operations
\* ---------------------------------------------------------------------
\* variants of setup used to test the properties below
setupKeepsScore ==
    /\ running' = TRUE
    /\ gameOver' = FALSE
    /\ score' = score
    /\ currentThroneSpeed' = INITIAL_THRONE_SPEED
    /\ bird' = [y |-> CANVAS_HEIGHT \div 2, velocity |-> 0]
    /\ thrones' = <<>>
    /\ endSoundPlays' = 0
    /\ timers' = timers (+) SetToBag({[session |-> session + 1,
                                       delay |-> GRACE_DELAY]})
    /\ session' = session + 1
    /\ frame' = 0
    /\ idleTicks' = 0
    /\ pairScore' = <<>>

setupKeepsThrones ==
    /\ running' = TRUE
    /\ gameOver' = FALSE
    /\ score' = 0
    /\ currentThroneSpeed' = INITIAL_THRONE_SPEED
    /\ bird' = [y |-> CANVAS_HEIGHT \div 2, velocity |-> 0]
    /\ thrones' = thrones
    /\ endSoundPlays' = 0
    /\ timers' = timers (+) SetToBag({[session |-> session + 1,
                                       delay |-> GRACE_DELAY]})
    /\ session' = session + 1
    /\ frame' = 0
    /\ idleTicks' = 0
    /\ pairScore' = pairScore

\* setup(), lines 489-519
setup ==
    /\ running' = TRUE
    /\ gameOver' = FALSE
    /\ score' = 0
    /\ currentThroneSpeed' = INITIAL_THRONE_SPEED
    /\ bird' = [y |-> CANVAS_HEIGHT \div 2, velocity |-> 0]
    /\ thrones' = <<>>
    /\ endSoundPlays' = 0
    /\ timers' = timers (+) SetToBag({[session |-> session + 1,
                                       delay |-> GRACE_DELAY]})
    /\ session' = session + 1
    /\ frame' = 0
    /\ idleTicks' = 0
    /\ pairScore' = <<>>

\* variant of jump used to test the properties below
jumpAdds ==
    IF ~running THEN setup
    ELSE IF gameOver THEN setup
    ELSE /\ bird' = [bird EXCEPT !.velocity = @ + JUMP_STRENGTH]
         /\ UNCHANGED <<running, gameOver, score, currentThroneSpeed,
                        thrones, timers, session, frame, idleTicks,
                        endSoundPlays, pairScore>>

\* jump(), lines 803-837 (audio left out)
jump ==
    IF ~running THEN setup
    ELSE IF gameOver THEN setup
    ELSE /\ bird' = [bird EXCEPT !.velocity = JUMP_STRENGTH]
         /\ UNCHANGED <<running, gameOver, score, currentThroneSpeed,
                        thrones, timers, session, frame, idleTicks,
                        endSoundPlays, pairScore>>

UpdateNeverReturnsEarly == FALSE

\* the early return of update, line 574
UpdateReturnsEarly == ~running \/ gameOver

SpawnNeverReturnsEarly == FALSE

\* the early return of spawnThrone, line 540
SpawnReturnsEarly == ~running \/ gameOver

\* update(), lines 573-612
update ==
    IF UpdateReturnsEarly
    THEN /\ idleTicks' = idleTicks + 1
         /\ UNCHANGED <<running, gameOver, score, currentThroneSpeed, bird,
                        thrones, timers, session, frame, endSoundPlays,
                        pairScore>>
    ELSE
        LET b == Integrate(bird)
            speed == SpeedFor(score)
            out == UpdateLoop(Len(thrones), speed,
                      [thrones |-> thrones, score |-> score,
                       pairScore |-> pairScore])
            st0 == [running |-> running, gameOver |-> gameOver,
                    plays |-> endSoundPlays]
            st1 == IF Collides(b, out.thrones) THEN endGame(st0) ELSE st0
            st2 == IF OutOfBand(b) THEN endGame(st1) ELSE st1
        IN /\ bird' = b
           /\ currentThroneSpeed' = speed
           /\ thrones' = out.thrones
           /\ score' = out.score
           /\ pairScore' = out.pairScore
           /\ running' = st2.running
           /\ gameOver' = st2.gameOver
           /\ endSoundPlays' = st2.plays
           /\ frame' = frame + 1
           /\ UNCHANGED <<timers, session, idleTicks>>

\* spawnThrone() run by the expiry of pending timer t, lines 539-568;
\* k is the draw of Math.random()
spawnThrone(t, k) ==
    IF SpawnReturnsEarly
    THEN /\ timers' = timers (-) SetToBag({t})
         /\ UNCHANGED <<running, gameOver, score, currentThroneSpeed, bird,
                        thrones, session, frame, idleTicks, endSoundPlays,
                        pairScore>>
    ELSE
        LET gapY == GapY(k)
            id == Len(pairScore) + 1
        IN /\ thrones' = thrones \o <<TopThrone(gapY, id),
                                      BottomThrone(gapY, id)>>
           /\ timers' = (timers (-) SetToBag({t}))
                          (+) SetToBag({[session |-> session,
                                         delay |-> getSpawnInterval(score)]})
           /\ pairScore' = Append(pairScore, 0)
           /\ UNCHANGED <<running, gameOver, score, currentThroneSpeed,
                          bird, session, frame, idleTicks, endSoundPlays>>

\* ---------------------------------------------------------------------
\* Events: the keydown / click listener, the animation frame, a timer expiry
\* ---------------------------------------------------------------------
Jump ==
    /\ IF running THEN bird.velocity \in JumpVelocities
                  ELSE session < MaxSessions
    /\ jump

Tick ==
    /\ IF ~running \/ gameOver THEN idleTicks < MaxIdleTicks
       ELSE frame < MaxFrames /\ score <= MaxScore
    /\ update

TimerExpiry ==
    \E t \in BagToSet(timers) : \E k \in RandomKs :
        /\ \/ ~running \/ gameOver
           \/ /\ frame % SpawnEvery = 0
              /\ frame \div SpawnEvery < MaxSpawnSlots
              /\ Len(pairScore) < MaxPairs
        /\ spawnThrone(t, k)

Next == Jump \/ Tick \/ TimerExpiry

Spec == Init /\ [][Next]_vars

\* ---------------------------------------------------------------------
\* Sessions without a jump: the player presses only to start or restart.
\* gameLoop runs update on every animation frame, so the step in which
\* update executes its body (the one that advances frame) is taken
\* whenever it stays possible: weak fairness of FrameAdvance.
\* ---------------------------------------------------------------------
StartOrRestart ==
    /\ ~running
    /\ Jump

NextNoJump == StartOrRestart \/ Tick \/ TimerExpiry

FrameAdvance ==
    /\ running /\ ~gameOver
    /\ frame < MaxFrames /\ score <= MaxScore
    /\ frame' = frame + 1

SpecNoJump == Init /\ [][NextNoJump]_vars /\ WF_frame(FrameAdvance)

\* ---------------------------------------------------------------------
\* High scores: one session in which the spawn timer chain expires several
\* times between two animation frames (a page that is not being painted
\* runs its timers but not its frames), so that a burst of pairs crosses
\* the bird in one tick; a new burst starts once the array is empty again,
\* and the player holds the bird between y = 540 and y = 600.
\* ---------------------------------------------------------------------
BurstInProgress ==
    /\ thrones # <<>>
    /\ thrones[Len(thrones)].x = CANVAS_WIDTH

BurstJump ==
    /\ IF running THEN bird.velocity = (15 * Scale) \div 2
                  ELSE session = 0
    /\ jump

BurstTick ==
    /\ IF ~running \/ gameOver THEN idleTicks < MaxIdleTicks
       ELSE /\ frame < BurstFrames
            /\ score <= MaxScore
            /\ IF thrones = <<>> THEN frame % SpawnEvery # 0
               ELSE BurstInProgress =>
                      /\ (Len(thrones) \div 2) \in BurstSizes
                      /\ score > 0 =>
                            \A size \in BurstSizes : size <= Len(thrones) \div 2
    /\ update

BurstExpiry ==
    \E t \in BagToSet(timers) : \E k \in BurstKs :
        /\ \/ ~running \/ gameOver
           \/ /\ frame % SpawnEvery = 0
              /\ thrones = <<>> \/ BurstInProgress
              /\ Len(thrones) \div 2 < MaxBurst
        /\ spawnThrone(t, k)

NextBurst == BurstJump \/ BurstTick \/ BurstExpiry

SpecBurst == Init /\ [][NextBurst]_vars

\* =====================================================================
\* Properties
\* =====================================================================
IsRunning == running /\ ~gameOver
IsGameOver == gameOver /\ ~running
IsIdle == ~running /\ ~gameOver

RECURSIVE SumSeq(_)
SumSeq(s) == IF s = <<>> THEN 0 ELSE Head(s) + SumSeq(Tail(s))

LivePairs == {thrones[i].pair : i \in 1..Len(thrones)}

\* C1: a spawn timer that expires in a session other than the one that
\* armed it is a no-op: it appends no obstacle and is not re-armed (the
\* bag of pending timers only loses that timer).
C1_StaleTimerIsNoop ==
    [][\A t \in BagToSet(timers) : \A k \in RandomKs :
          (t.session # session /\ spawnThrone(t, k))
              => /\ thrones' = thrones
                 /\ timers' = timers (-) SetToBag({t})]_vars

\* C2: every pair spawned in the session has caused at most one score
\* increment; a pair whose trailing edge is left of the bird's x, or that
\* has been removed from the array, has caused exactly one; and the score
\* is the sum of these increments.
C2_OneIncrementPerPair ==
    /\ \A p \in 1..Len(pairScore) : pairScore[p] <= 1
    /\ \A i \in 1..Len(thrones) :
          FlLT(FlAdd(thrones[i].x, thrones[i].width), BIRD_X)
              => pairScore[thrones[i].pair] = 1
    /\ \A p \in 1..Len(pairScore) :
          p \notin LivePairs => pairScore[p] = 1
    /\ score = SumSeq(pairScore)

\* C2 witness: the first pair was scored and removed, the second pair was
\* scored afterwards and is still live.
C2_Witness ==
    /\ pairScore = <<1, 1>>
    /\ LivePairs = {2}
    /\ score = 2

\* C3: for every pair in the array the gap offset (the top throne's
\* height) lies in [minGapY, CANVAS_HEIGHT - THRONE_GAP - minGapY] with
\* minGapY = 400 px, and both thrones of the pair are at least 400 px high.
C3_GapClearance ==
    \A i \in 1..Len(thrones) :
        /\ thrones[i].height >= 400 * Scale
        /\ thrones[i].y = 0 =>
              /\ thrones[i].height >= 400 * Scale
              /\ thrones[i].height
                    <= CANVAS_HEIGHT - THRONE_GAP - 400 * Scale

\* C4 (as claimed): in every state the current speed equals
\* INITIAL_THRONE_SPEED + score * SPEED_INCREASE_RATE for that state's score.
C4_SpeedNeverStale ==
    currentThroneSpeed
        = FlAdd(INITIAL_THRONE_SPEED, FlMulInt(score, SPEED_INCREASE_RATE))

\* C4 (amended): setup leaves the speed at the value for score 0, and every
\* update executed while running leaves the speed at the value for the score
\* held when that update began, so after a scoring tick the stored speed
\* lags the new score until the next update; it is never above the value
\* for the current score.
C4_SpeedOfScoreAtTickStart ==
    [][/\ session' # session =>
            currentThroneSpeed'
               = FlAdd(Px(12), FlMulInt(score', SPEED_INCREASE_RATE))
       /\ frame' = frame + 1 =>
            /\ currentThroneSpeed'
                  = FlAdd(Px(12), FlMulInt(score, SPEED_INCREASE_RATE))
            /\ ~FlLT(FlAdd(Px(12), FlMulInt(score', SPEED_INCREASE_RATE)),
                     currentThroneSpeed')]_vars

\* C4 witness: a running state after the tick that followed a scoring tick,
\* the speed recomputed for score 1.
C4_Witness ==
    /\ IsRunning
    /\ score = 1
    /\ currentThroneSpeed = FlAdd(INITIAL_THRONE_SPEED, SPEED_INCREASE_RATE)

\* C5: running and gameOver are never both true.
C5_FlagsExclusive == ~(running /\ gameOver)

\* C5 witness: a session has ended, GameOver with running cleared.
C5_Witness == gameOver /\ ~running /\ frame > 0

\* C6: a step that does not start a session never decreases the score, and
\* every step into Running (a setup) leaves the score at exactly 0.
C6_ScoreMonotoneAndReset ==
    [][/\ session' = session => score' >= score
       /\ (session' # session \/ (~running /\ running')) => score' = 0]_vars

\* C6 witness: a restarted session (second setup) that has since scored.
C6_Witness == session = 2 /\ IsRunning /\ score >= 1

\* C7: jump() while not running (Idle or GameOver) leaves the same engine
\* state: Running, score 0, base speed, bird at field centre with velocity
\* 0, no thrones; and it arms one timer with the 2000 ms grace delay.
C7_JumpWhenNotRunningResets ==
    [][(~running /\ jump) =>
          /\ running' /\ ~gameOver'
          /\ score' = 0
          /\ currentThroneSpeed' = INITIAL_THRONE_SPEED
          /\ bird' = [y |-> CANVAS_HEIGHT \div 2, velocity |-> 0]
          /\ thrones' = <<>>
          /\ \E t \in BagToSet(timers') :
                /\ t.delay = 2000
                /\ timers' = timers (+) SetToBag({t})]_vars

\* C7 witness: the state right after a restart from GameOver.
C7_Witness ==
    /\ session = 2 /\ frame = 0 /\ idleTicks = 0
    /\ IsRunning /\ thrones = <<>> /\ score = 0
    /\ bird = [y |-> CANVAS_HEIGHT \div 2, velocity |-> 0]

\* C8: jump() while running sets the velocity to JUMP_STRENGTH whatever it
\* was, and changes nothing else of the engine state.
C8_JumpOverwritesVelocity ==
    [][(running /\ ~gameOver /\ jump) =>
          /\ bird'.velocity = (0 - 8) * Scale
          /\ bird'.y = bird.y
          /\ UNCHANGED <<running, gameOver, score, currentThroneSpeed,
                         thrones>>]_vars

\* C8 witness: running with the velocity a jump has just written.
C8_Witness == IsRunning /\ bird.velocity = (0 - 8) * Scale /\ frame > 0

\* C9: the end-of-session side effect happens exactly once per ended
\* session, also when one tick raises both terminal signals: in GameOver
\* the end sound has been started exactly once, otherwise not at all.
C9_EndsExactlyOnce ==
    /\ gameOver => (~running /\ endSoundPlays = 1)
    /\ ~gameOver => endSoundPlays = 0

\* C9 witness: GameOver reached by a tick in which the bird both overlaps
\* a throne and is in the ground or ceiling band.
C9_Witness ==
    /\ IsGameOver
    /\ Collides(bird, thrones)
    /\ OutOfBand(bird)
    /\ endSoundPlays = 1

\* C10: update() called while not running (Idle or GameOver) changes
\* nothing of the engine state.
C10_TickWhenNotRunningIsNoop ==
    [][((~running \/ gameOver) /\ update) => UNCHANGED engine]_vars

\* C10 witness: GameOver after update() has been called twice more.
C10_Witness == IsGameOver /\ idleTicks >= 2

\* C11: a spawn timer that expires while the session is not running appends
\* no throne and is not re-armed; the array grows only in steps taken while
\* running, and never while the session is in GameOver.
C11_NoSpawnWhenNotRunning ==
    [][/\ \A t \in BagToSet(timers) : \A k \in RandomKs :
             ((~running \/ gameOver) /\ spawnThrone(t, k))
                 => /\ thrones' = thrones
                    /\ timers' = timers (-) SetToBag({t})
       /\ Len(thrones') > Len(thrones) => (running /\ ~gameOver)
       /\ (gameOver /\ gameOver') => Len(thrones') <= Len(thrones)]_vars

\* C11 witness: GameOver of the first session after its pending timer has
\* expired, with the thrones of the session still in the array.
C11_Witness ==
    /\ IsGameOver /\ session = 1
    /\ timers = EmptyBag
    /\ thrones # <<>>

\* C12: a spawn while running re-arms the timer with the interval of the
\* score held at that moment: below 10 gives 3000 ms, below 20 gives 2500,
\* below 50 gives 2000, below 100 gives 1500, otherwise 1000.
C12_RearmIntervalBands ==
    [][\A t \in BagToSet(timers) : \A k \in RandomKs :
          (running /\ ~gameOver /\ spawnThrone(t, k)) =>
              LET ms == IF score < 10 THEN 3000
                        ELSE IF score < 20 THEN 2500
                        ELSE IF score < 50 THEN 2000
                        ELSE IF score < 100 THEN 1500
                        ELSE 1000
              IN timers' = (timers (-) SetToBag({t}))
                              (+) SetToBag({[session |-> session,
                                             delay |-> ms]})]_vars

\* C12 witness: a spawn at a score of exactly 10 has armed a 2500 ms timer.
C12_Witness ==
    /\ IsRunning /\ score = 10
    /\ BurstInProgress
    /\ \E t \in BagToSet(timers) : t.delay = 2500

\* C13: a tick executed while running adds GRAVITY to the velocity and then
\* adds the new velocity to the position; any other step that changes the
\* velocity is a jump, which writes JUMP_STRENGTH while running and 0 when
\* it starts a session.
C13_SemiImplicitEuler ==
    [][/\ frame' = frame + 1 =>
            /\ bird'.velocity = bird.velocity + Scale \div 2
            /\ bird'.y = bird.y + bird'.velocity
       /\ (frame' # frame + 1 /\ bird' # bird) =>
            /\ jump
            /\ bird'.velocity = (IF running THEN (0 - 8) * Scale ELSE 0)]_vars

\* C13 witness: three ticks into a session without a jump.
C13_Witness ==
    /\ IsRunning /\ frame = 3
    /\ bird.velocity = 3 * (Scale \div 2)
    /\ bird.y = (CANVAS_HEIGHT \div 2) + 6 * (Scale \div 2)

\* C14: in a session without jumps, after n ticks the velocity is n * 0.5
\* and y is the start position plus 0.5 * (1 + ... + n); the session is in
\* GameOver exactly when y + height has reached groundY, which happens at
\* the first such tick (the position before that tick was still above the
\* ground band); and every such session eventually reaches GameOver.
C14_FreeFall ==
    /\ [](session >= 1 =>
            /\ bird.velocity = frame * (Scale \div 2)
            /\ bird.y = (CANVAS_HEIGHT \div 2)
                          + (Scale \div 2) * ((frame * (frame + 1)) \div 2)
            /\ gameOver <=> bird.y + BIRD_HEIGHT >= CANVAS_HEIGHT - 120 * Scale
            /\ gameOver =>
                 bird.y - bird.velocity + BIRD_HEIGHT
                     < CANVAS_HEIGHT - 120 * Scale)
    /\ (IsRunning ~> IsGameOver)

\* C14 witness: the fall has ended on the ground band at the 29th tick.
C14_Witness ==
    /\ IsGameOver /\ frame = 29
    /\ bird.velocity = 29 * (Scale \div 2)

\* C15: no throne whose trailing edge is left of the field is in the array.
C15_NoOffFieldThrone ==
    \A i \in 1..Len(thrones) :
        ~FlLT(FlAdd(thrones[i].x, thrones[i].width), Px(0))

\* C15 witness: both pairs of the session have been removed, and the tick
\* that removed the last one also ended the session or left it running.
C15_Witness ==
    /\ Len(pairScore) = 2
    /\ thrones = <<>>
    /\ frame > 0

\* C16: GameOver is left only by a jump, which goes to Running; every other
\* step taken in GameOver stays in GameOver with the score unchanged; and no
\* step returns to Idle once a session has been started.
C16_GameOverIsStable ==
    [][/\ (IsGameOver /\ session' = session) =>
             (gameOver' /\ ~running' /\ score' = score)
       /\ (IsGameOver /\ session' # session) => (running' /\ ~gameOver')
       /\ (running \/ gameOver) => (running' \/ gameOver')]_vars

\* C16 witness: GameOver with a positive final score, after further calls
\* of update and the expiry of the pending timer.
C16_Witness ==
    /\ IsGameOver /\ score >= 1
    /\ idleTicks >= 1
    /\ timers = EmptyBag

\* C17: a spawn appends exactly two thrones, top then bottom, both at
\* x = CANVAS_WIDTH with width THRONE_WIDTH and passed = false; the top
\* spans [0, gapY], the bottom [gapY + THRONE_GAP, CANVAS_HEIGHT].
C17_SpawnAppendsPair ==
    [][Len(thrones') > Len(thrones) =>
          /\ Len(thrones') = Len(thrones) + 2
          /\ SubSeq(thrones', 1, Len(thrones)) = thrones
          /\ LET top == thrones'[Len(thrones) + 1]
                 bottom == thrones'[Len(thrones) + 2]
             IN /\ top.x = Px(1920) /\ bottom.x = Px(1920)
                /\ top.width = Px(360) /\ bottom.width = Px(360)
                /\ ~top.passed /\ ~bottom.passed
                /\ top.y = 0
                /\ bottom.y = top.y + top.height + 800 * Scale
                /\ bottom.y + bottom.height = 1080 * Scale]_vars

\* C17 witness: the array holds one pair that has just been appended.
C17_Witness ==
    /\ Len(thrones) = 2
    /\ thrones[1].x = CANVAS_WIDTH /\ thrones[1].y = 0
    /\ thrones[2].y = thrones[1].height + THRONE_GAP

\* C18: a tick executed while running ends in GameOver exactly when, on
\* the positions it leaves, the bird's box strictly overlaps a throne of the
\* array on both axes, or the bird is in the ground band or the ceiling band.
C18_TerminalConditions ==
    [][frame' = frame + 1 =>
          (gameOver' <=>
              \/ \E i \in 1..Len(thrones') :
                    /\ FlLT(BIRD_X, FlAdd(thrones'[i].x, thrones'[i].width))
                    /\ FlLT(thrones'[i].x, FlAdd(BIRD_X, BIRD_WIDTH))
                    /\ bird'.y < thrones'[i].y + thrones'[i].height
                    /\ bird'.y + BIRD_HEIGHT > thrones'[i].y
              \/ bird'.y + BIRD_HEIGHT >= CANVAS_HEIGHT - 120 * Scale
              \/ bird'.y <= 120 * Scale)]_vars

\* C18 witness: GameOver by a throne overlap alone, the bird strictly
\* between the ceiling band and the ground band.
C18_Witness ==
    /\ IsGameOver
    /\ bird.y > 120 * Scale
    /\ bird.y + BIRD_HEIGHT < CANVAS_HEIGHT - 120 * Scale
    /\ Collides(bird, thrones)

\* C19: within a tick a throne is moved before it is tested for scoring,
\* and the collision test sees the moved thrones: a pair's increment is
\* counted in exactly the tick in which its moved trailing edge is left of
\* the bird's x for the first time, and a bird that overlaps a moved throne
\* ends the session in that tick.
C19_AdvanceBeforeScoring ==
    [][frame' = frame + 1 =>
          LET speed == FlAdd(Px(12), FlMulInt(score, SPEED_INCREASE_RATE))
          IN /\ \A i \in 1..Len(thrones) :
                   LET t == thrones[i]
                       crosses ==
                           /\ ~FlLT(FlAdd(t.x, t.width), BIRD_X)
                           /\ FlLT(FlAdd(FlSub(t.x, speed), t.width), BIRD_X)
                   IN pairScore'[t.pair]
                         = pairScore[t.pair] + (IF crosses THEN 1 ELSE 0)
             /\ \A i \in 1..Len(thrones') :
                   (/\ FlLT(BIRD_X, FlAdd(thrones'[i].x, thrones'[i].width))
                    /\ FlLT(thrones'[i].x, FlAdd(BIRD_X, BIRD_WIDTH))
                    /\ bird'.y < thrones'[i].y + thrones'[i].height
                    /\ bird'.y + BIRD_HEIGHT > thrones'[i].y) => gameOver']_vars

\* C19 witness: the tick just taken moved the first pair's trailing edge
\* across the bird's x and counted it.
C19_Witness ==
    /\ thrones # <<>>
    /\ FlLT(FlAdd(thrones[1].x, thrones[1].width), BIRD_X)
    /\ ~FlLT(FlAdd(FlAdd(thrones[1].x, currentThroneSpeed),
                   thrones[1].width), BIRD_X)
    /\ pairScore[thrones[1].pair] = 1

\* C20: a tick executed while running visits every throne of the array
\* once: the array it leaves is the old array, in order, with every x lowered
\* by the tick's speed, passed set where the moved trailing edge is left of
\* the bird's x, and without the thrones whose moved trailing edge is left
\* of the field.
RECURSIVE C20_Visited(_, _)
C20_Visited(ths, speed) ==
    IF ths = <<>> THEN <<>>
    ELSE LET t == Head(ths)
             x == FlSub(t.x, speed)
             m == [t EXCEPT !.x = x,
                            !.passed = @ \/ FlLT(FlAdd(x, t.width), BIRD_X)]
         IN (IF FlLT(FlAdd(m.x, m.width), Px(0)) THEN <<>> ELSE <<m>>)
               \o C20_Visited(Tail(ths), speed)

C20_EveryThroneVisitedOnce ==
    [][frame' = frame + 1 =>
          thrones' = C20_Visited(thrones,
              FlAdd(Px(12), FlMulInt(score, SPEED_INCREASE_RATE)))]_vars

\* C20 witness: the first pair has been removed while the second pair,
\* not yet counted, stayed in the array and kept moving.
C20_Witness ==
    /\ pairScore = <<1, 0>>
    /\ LivePairs = {2}
    /\ FlLT(thrones[1].x, CANVAS_WIDTH)

\* C21: at most one spawn timer is pending in any state, whatever the
\* interleaving of jump, update and timer expiry, a restart right after
\* GameOver included.
C21_AtMostOneTimerPending == BagCardinality(timers) <= 1

\* C22: the array consists of whole pairs in spawn order: its length is
\* even; the throne at each even JavaScript index is a top throne (y = 0)
\* and the next one is the bottom throne of the same pair, THRONE_GAP below
\* the top's lower edge, with the same x and the same passed flag; pairs
\* appear in the order they were spawned and x never decreases along the
\* array.  So no tick removes one member of a pair without the other.
C22_WholePairsInSpawnOrder ==
    /\ Len(thrones) % 2 = 0
    /\ \A j \in 1..(Len(thrones) \div 2) :
          LET top == thrones[2 * j - 1]
              bottom == thrones[2 * j]
          IN /\ top.y = 0
             /\ bottom.y = top.height + 800 * Scale
             /\ bottom.pair = top.pair
             /\ bottom.x = top.x
             /\ bottom.passed = top.passed
    /\ \A i \in 1..Len(thrones) : \A j \in 1..Len(thrones) :
          i < j => /\ ~FlLT(thrones[j].x, thrones[i].x)
                   /\ thrones[i].pair <= thrones[j].pair

\* C22 witness: the first pair has been removed, both members in one tick;
\* the second pair is at the head of the array and has been passed.
C22_Witness ==
    /\ Len(thrones) = 2
    /\ thrones[1].pair = 2 /\ thrones[2].pair = 2
    /\ thrones[1].passed /\ thrones[2].passed
    /\ thrones[1].y = 0 /\ thrones[2].y > 0

\* C23: while the session is running the bird lies strictly between the
\* ceiling band and the ground band, and its box overlaps no throne of the
\* array.
C23_RunningBirdIsClear ==
    running =>
        /\ bird.y > 120 * Scale
        /\ bird.y + BIRD_HEIGHT < CANVAS_HEIGHT - 120 * Scale
        /\ \A i \in 1..Len(thrones) :
              ~(/\ FlLT(BIRD_X, FlAdd(thrones[i].x, thrones[i].width))
                /\ FlLT(thrones[i].x, FlAdd(BIRD_X, BIRD_WIDTH))
                /\ bird.y < thrones[i].y + thrones[i].height
                /\ bird.y + BIRD_HEIGHT > thrones[i].y)

\* C23 witness: running with the bird inside the gap of a pair, between the
\* leading and the trailing edge of its thrones.
C23_Witness ==
    /\ IsRunning /\ frame > 0
    /\ \E i \in 1..Len(thrones) :
          /\ FlLT(BIRD_X, FlAdd(thrones[i].x, thrones[i].width))
          /\ FlLT(thrones[i].x, FlAdd(BIRD_X, BIRD_WIDTH))

\* C24: every throne of the array is a well-formed rectangle inside the
\* field: height >= 0, y >= 0 and y + height <= CANVAS_HEIGHT.
C24_WellFormedRectangles ==
    \A i \in 1..Len(thrones) :
        /\ thrones[i].height >= 0
        /\ thrones[i].y >= 0
        /\ thrones[i].y + thrones[i].height <= 1080 * Scale

====
